---- MODULE Spec2Model ----
(***************************************************************************)
(* Model of the ship/buoy observation server: the station store           *)
(* (app/store.py), the merge policy (app/dedup.py), the request           *)
(* statistics with GeoIP coalescing (app/stats.py) and the fetch tasks    *)
(* and scheduler of app/main.py.                                          *)
(*                                                                         *)
(* Time is counted in seconds.  Observation times are UTC instants.       *)
(***************************************************************************)
EXTENDS Integers, Sequences, FiniteSets, TLC

\* ------------------------------------------------------------------ bounds
MaxBatch == 2          \* longest batch handed to update_from_osmc / update_from_ndbc
MaxClockHours == 3     \* the wall clock of the store model stops after this many hours
MaxRequests == 4       \* API requests counted by the statistics model
MaxClockSteps == 3     \* the clock of the scheduler model advances this many times
MaxAdminFetches == 1   \* on-demand fetches asked for through the admin pages
MaxFetched == 1        \* stations in the document one fetch of the scheduler model returns
MaxLon == 720          \* longitudes handed to normalize run from -MaxLon to MaxLon degrees
MaxRows == 2           \* data rows of a document handed to a parser

\* ------------------------------------------------------- program constants
Hour == 3600           \* timedelta(hours=1) in seconds
PURGE_INTERVAL_SECONDS == 15 * 60
OSMC_LOOKBACK_HOURS == 6
WatermarkOverlap == 5 * 60     \* timedelta(minutes=5)
ClockStep == 5 * 60            \* the scheduler model's clock advances in steps of 5 minutes

\* ------------------------------------------------------------ input sets
Threads == {"t1", "t2"}
NoThread == "none"
Codes == {"41008", "KBGJ"}
Feeds == {"osmc", "ndbc"}
ObsTimes == {1 * Hour, 2 * Hour}
AgeHours == {1, 2}
\* types: set[str] | None -- None is <<>>, a set S is <<S>>
NoTypes == <<>>
TypeFilters == {NoTypes, <<{}>>, <<{"ship"}>>, <<{"buoy", "shore"}>>}
BBoxes ==
  { [lat_min |-> -90, lat_max |-> 90, lon_min |-> -180, lon_max |-> 180],
    [lat_min |-> 30,  lat_max |-> 35, lon_min |-> -85,  lon_max |-> -75],
    [lat_min |-> 31,  lat_max |-> 60, lon_min |-> -81,  lon_max |-> 10] }

\* A platform's type, and the position a feed reports for it.
TypeOf(code) == IF code = "41008" THEN "buoy" ELSE "ship"
LatOf(code, feed) == IF code = "41008" THEN 31 ELSE 60
LonOf(code, feed) == IF feed = "osmc" THEN -81 ELSE 10

\* ObservationStation(platform_code, platform_type, lat, lon, time, source)
Station(code, feed, t) ==
  [platform_code |-> code, platform_type |-> TypeOf(code),
   lat |-> LatOf(code, feed), lon |-> LonOf(code, feed),
   time |-> t, source |-> feed]

FeedStations(feed) == { Station(c, feed, t) : c \in Codes, t \in ObsTimes }
AllStations == UNION { FeedStations(f) : f \in Feeds }

RECURSIVE SeqsUpTo(_, _)
SeqsUpTo(S, n) ==
  IF n = 0 THEN { <<>> }
  ELSE LET shorter == SeqsUpTo(S, n - 1)
       IN  shorter \cup { Append(q, x) : q \in { r \in shorter : Len(r) = n - 1 }, x \in S }

Batches(feed) == SeqsUpTo(FeedStations(feed), MaxBatch)

\* ------------------------------------------------------------- variables
VARIABLES
  stations,     \* StationStore._stations : dict platform_code -> ObservationStation
  lock,         \* StationStore._lock : the thread holding it, or NoThread
  thr,          \* per thread: position in the store method it is executing, and its locals
  now,          \* datetime.now(timezone.utc), in seconds
  committed,    \* history: the table as left by the last complete batch or purge
  stats,        \* the module globals of app/stats.py
  http_client,  \* main._http_client is set (TRUE) or None (FALSE)
  lookups,      \* the _lookup_country tasks in flight, per address and position
  stats_op,     \* history: the last call into app/stats.py, with what it returned
  hits,         \* history: the number of record_hit calls made for each address
  sched,        \* the _scheduler task: where it is suspended, and its locals
  tasks,        \* the _fetch_osmc_task / _fetch_ndbc_task coroutines, by who runs them
  osmc_since,   \* main._osmc_since : None or the watermark
  source_status,\* main._source_status
  settings,     \* settings_store.settings
  fetch_events, \* the fetch-history file: number of events per source and status
  admin_fetches,\* history: the number of on-demand fetches asked for
  model_op      \* history: the last call of normalize, a parser, to_api_dict or the
                \* settings form, with its arguments

storeVars == <<stations, lock, thr, now, committed>>
statsVars == <<stats, http_client, lookups, stats_op, hits>>
schedVars == <<sched, tasks, osmc_since, source_status, settings, fetch_events, admin_fetches>>
vars == <<stations, lock, thr, now, committed, stats, http_client, lookups, stats_op, hits,
          sched, tasks, osmc_since, source_status, settings, fetch_events, admin_fetches,
          model_op>>

\* ----------------------------------------------------------- merge policy
\* mutant: a tie keeps the existing record
merge_station_TieKeepsExisting(existing, incoming) ==
  IF incoming.time > existing.time THEN incoming ELSE existing

\* mutant: the newer record, placed halfway between the two positions
merge_station_Blends(existing, incoming) ==
  IF incoming.time >= existing.time
  THEN [incoming EXCEPT !.lon = (existing.lon + incoming.lon) \div 2]
  ELSE existing

\* mutant: the record already held always stays
merge_station_FirstWins(existing, incoming) == existing

\* dedup.merge_station
merge_station(existing, incoming) ==
  IF incoming.time >= existing.time THEN incoming ELSE existing

\* ----------------------------------------------------------- store helpers
EmptyTable == [c \in {} |-> 0]

\* Python's None; an optional value v is <<v>>
None == <<>>

\* self._stations.get(code)
Get(tbl, code) == IF code \in DOMAIN tbl THEN <<tbl[code]>> ELSE None

\* cutoff = datetime.now(timezone.utc) - timedelta(hours=max_age_hours)
Cutoff(clock, max_age_hours) == clock - max_age_hours * Hour

\* mutant: the incoming record always replaces the stored one
PutStation_Overwrite(tbl, s) ==
  [c \in (DOMAIN tbl) \cup {s.platform_code} |-> IF c = s.platform_code THEN s ELSE tbl[c]]

\* mutant: a record older than one hour is not taken in
PutStation_AgeChecked(tbl, s) ==
  IF s.time < Cutoff(now, 1) THEN tbl
  ELSE LET code == s.platform_code
           val  == IF code \notin DOMAIN tbl THEN s ELSE merge_station(tbl[code], s)
       IN  [c \in (DOMAIN tbl) \cup {code} |-> IF c = code THEN val ELSE tbl[c]]

\* one iteration of the loop of update_from_osmc / update_from_ndbc
PutStation(tbl, s) ==
  LET code == s.platform_code
      val  == IF code \notin DOMAIN tbl THEN s ELSE merge_station(tbl[code], s)
  IN  [c \in (DOMAIN tbl) \cup {code} |-> IF c = code THEN val ELSE tbl[c]]

\* the whole loop of update_from_osmc / update_from_ndbc
RECURSIVE ApplyBatch(_, _)
ApplyBatch(tbl, batch) ==
  IF batch = <<>> THEN tbl
  ELSE ApplyBatch(PutStation(tbl, Head(batch)), Tail(batch))

\* mutant: an entry exactly at the cutoff is purged too
PurgeTable_CutoffPurged(tbl, cutoff) ==
  [c \in { k \in DOMAIN tbl : tbl[k].time > cutoff } |-> tbl[c]]

\* the dict comprehension of purge_old
PurgeTable(tbl, cutoff) ==
  [c \in { k \in DOMAIN tbl : tbl[k].time >= cutoff } |-> tbl[c]]

\* Python truth value of `types`: None and the empty set are false
Truthy(types) == types # NoTypes /\ types[1] # {}

\* the filter loop of query
QueryMatch(s, q) ==
  /\ ~(s.time < q.cutoff)
  /\ (q.bbox.lat_min <= s.lat /\ s.lat <= q.bbox.lat_max)
  /\ (q.bbox.lon_min <= s.lon /\ s.lon <= q.bbox.lon_max)
  /\ ~(Truthy(q.types) /\ s.platform_type \notin q.types[1])

QueryResults(tbl, q) == { tbl[c] : c \in { k \in DOMAIN tbl : QueryMatch(tbl[k], q) } }

Count(tbl) == Cardinality(DOMAIN tbl)

\* oldest_observation: None for an empty table, else the earliest time held
oldest_observation(tbl) ==
  IF DOMAIN tbl = {} THEN None
  ELSE <<CHOOSE m \in { tbl[c].time : c \in DOMAIN tbl } :
           \A c \in DOMAIN tbl : m <= tbl[c].time>>

\* ------------------------------------------------------ request statistics
Ips == {"8.8.8.8", "1.1.1.1", "10.0.0.5", "unknown"}
CountryCodes == {"US", "DE"}
Unknown == "Unknown"

\* stats._is_private: loopback, private or link-local, or not an address at all
_is_private(ip) == ip \in {"10.0.0.5", "unknown"}

\* collections.Counter: counter[k] += n
Add(counter, k, n) ==
  [x \in (DOMAIN counter) \cup {k} |->
     IF x = k THEN (IF k \in DOMAIN counter THEN counter[k] ELSE 0) + n ELSE counter[x]]

\* dict[k] = v
Put(dict, k, v) == [x \in (DOMAIN dict) \cup {k} |-> IF x = k THEN v ELSE dict[x]]

\* Counter.pop(k, 0): the counter without k
Without(counter, k) == [x \in (DOMAIN counter) \ {k} |-> counter[x]]

\* counter[k] read without inserting: Counter.pop(k, 0)'s value
Read(counter, k) == IF k \in DOMAIN counter THEN counter[k] ELSE 0

\* sum(counter[k] for k in S)
RECURSIVE SumOver(_, _)
SumOver(f, S) ==
  IF S = {} THEN 0
  ELSE LET x == CHOOSE y \in S : TRUE IN f[x] + SumOver(f, S \ {x})

\* the module globals of stats.py at import
StatsState0 ==
  [ _total_requests   |-> 0,
    _country_counts   |-> EmptyTable,
    _ip_hit_count     |-> EmptyTable,
    _ip_country_cache |-> EmptyTable,
    _pending_lookups  |-> {} ]

\* mutant: a later resolution replaces the cached country
update_country_LastWins(st, ip, country) ==
  LET cleared == [st EXCEPT !._pending_lookups = @ \ {ip}]
      n       == Read(st._ip_hit_count, ip)
  IN  [cleared EXCEPT
         !._ip_country_cache = Put(@, ip, country),
         !._ip_hit_count = Without(@, ip),
         !._country_counts = IF n # 0 THEN Add(@, country, n) ELSE @]

\* mutant: every hit of an unresolved address asks for a lookup
record_hit_AlwaysSignals(st, ip) ==
  LET counted == [st EXCEPT !._total_requests = @ + 1]
  IN  IF _is_private(ip)
      THEN [st |-> [counted EXCEPT !._country_counts = Add(@, "Local", 1)], ret |-> FALSE]
      ELSE IF ip \in DOMAIN st._ip_country_cache
      THEN [st |-> [counted EXCEPT !._country_counts = Add(@, st._ip_country_cache[ip], 1)],
            ret |-> FALSE]
      ELSE [st |-> [counted EXCEPT !._ip_hit_count = Add(@, ip, 1),
                                   !._pending_lookups = @ \cup {ip}],
            ret |-> TRUE]

\* stats.record_hit: the new module state and the returned flag
record_hit(st, ip) ==
  LET counted == [st EXCEPT !._total_requests = @ + 1]
  IN  IF _is_private(ip)
      THEN [st |-> [counted EXCEPT !._country_counts = Add(@, "Local", 1)], ret |-> FALSE]
      ELSE IF ip \in DOMAIN st._ip_country_cache
      THEN [st |-> [counted EXCEPT !._country_counts = Add(@, st._ip_country_cache[ip], 1)],
            ret |-> FALSE]
      ELSE LET buffered == [counted EXCEPT !._ip_hit_count = Add(@, ip, 1)]
           IN  IF ip \notin st._pending_lookups
               THEN [st |-> [buffered EXCEPT !._pending_lookups = @ \cup {ip}], ret |-> TRUE]
               ELSE [st |-> buffered, ret |-> FALSE]

\* mutant: the buffered hits are added to the bucket but stay in the buffer
update_country_KeepsBuffer(st, ip, country) ==
  LET cleared == [st EXCEPT !._pending_lookups = @ \ {ip}]
  IN  IF ip \in DOMAIN st._ip_country_cache
      THEN cleared
      ELSE LET n == Read(st._ip_hit_count, ip)
           IN  [cleared EXCEPT
                  !._ip_country_cache = Put(@, ip, country),
                  !._country_counts = IF n # 0 THEN Add(@, country, n) ELSE @]

\* stats.update_country: the new module state
update_country(st, ip, country) ==
  LET cleared == [st EXCEPT !._pending_lookups = @ \ {ip}]
  IN  IF ip \in DOMAIN st._ip_country_cache
      THEN cleared
      ELSE LET n == Read(st._ip_hit_count, ip)
           IN  [cleared EXCEPT
                  !._ip_country_cache = Put(@, ip, country),
                  !._ip_hit_count = Without(@, ip),
                  !._country_counts = IF n # 0 THEN Add(@, country, n) ELSE @]

\* stats.get_stats: the buckets with the buffered hits as "Pending" (the model
\* has fewer than the 20 buckets most_common(20) keeps)
get_stats(st) ==
  LET pending_hits == SumOver(st._ip_hit_count, DOMAIN st._ip_hit_count)
  IN  [total_requests |-> st._total_requests,
       by_country |-> IF pending_hits # 0 THEN Add(st._country_counts, "Pending", pending_hits)
                      ELSE st._country_counts]

\* what the ip-api.com request of _lookup_country can end in
LookupOutcomes ==
  { [kind |-> "success", countryCode |-> <<c>>] : c \in CountryCodes }
    \cup { [kind |-> "success", countryCode |-> None],
           [kind |-> "fail", countryCode |-> None],
           [kind |-> "raises", countryCode |-> None] }

\* mutant: no except clause, an exception ends the task
Caught_Nothing(outcome) == FALSE

\* _lookup_country: `except Exception` catches whatever the request or resp.json() raises
Caught(outcome) == TRUE

\* _lookup_country: the country computed from the answer
CountryOf(outcome) ==
  IF outcome.kind = "success"
  THEN (IF outcome.countryCode # None THEN outcome.countryCode[1] ELSE Unknown)
  ELSE Unknown

\* the _lookup_country tasks of an address that have not ended
Outstanding(ip) == lookups[ip].created + lookups[ip].awaiting

NoLookups == [ip \in Ips |-> [created |-> 0, awaiting |-> 0]]
NoOp == [op |-> "none"]

StatsInit ==
  /\ stats = StatsState0
  /\ http_client = FALSE
  /\ lookups = NoLookups
  /\ stats_op = NoOp
  /\ hits = [ip \in Ips |-> 0]

\* get_observations: record_hit(client_ip), and create_task(_lookup_country) when it says so
GetObservations(ip) ==
  /\ stats._total_requests < MaxRequests
  /\ LET r == record_hit(stats, ip)
     IN  /\ stats' = r.st
         /\ lookups' = IF r.ret THEN [lookups EXCEPT ![ip].created = @ + 1] ELSE lookups
         /\ stats_op' = [op |-> "record_hit", ip |-> ip, ret |-> r.ret,
                         outstanding |-> Outstanding(ip),
                         resolved |-> ip \in DOMAIN stats._ip_country_cache]
  /\ hits' = [hits EXCEPT ![ip] = @ + 1]
  /\ UNCHANGED http_client
  /\ UNCHANGED <<storeVars, schedVars, model_op>>

\* _lookup_country starts: without a client it resolves to Unknown at once,
\* otherwise it sends the request and waits
LookupStart(ip) ==
  /\ lookups[ip].created > 0
  /\ IF ~http_client
     THEN /\ stats' = update_country(stats, ip, Unknown)
          /\ lookups' = [lookups EXCEPT ![ip].created = @ - 1]
          /\ stats_op' = [op |-> "update_country", ip |-> ip, country |-> Unknown,
                          outcome |-> "no client"]
     ELSE /\ lookups' = [lookups EXCEPT ![ip].created = @ - 1, ![ip].awaiting = @ + 1]
          /\ UNCHANGED <<stats, stats_op>>
  /\ UNCHANGED <<http_client, hits>>
  /\ UNCHANGED <<storeVars, schedVars, model_op>>

\* _lookup_country resumes with the answer (or the exception, the 5 s timeout
\* included) and calls update_country
LookupComplete(ip) ==
  /\ lookups[ip].awaiting > 0
  /\ lookups' = [lookups EXCEPT ![ip].awaiting = @ - 1]
  /\ \E outcome \in LookupOutcomes :
       IF outcome.kind = "raises" /\ ~Caught(outcome)
       THEN /\ stats_op' = [op |-> "lookup died", ip |-> ip]
            /\ UNCHANGED stats
       ELSE /\ stats' = update_country(stats, ip, CountryOf(outcome))
            /\ stats_op' = [op |-> "update_country", ip |-> ip, country |-> CountryOf(outcome),
                            outcome |-> outcome.kind]
  /\ UNCHANGED <<http_client, hits>>
  /\ UNCHANGED <<storeVars, schedVars, model_op>>

\* a caller of the module calls record_hit(ip)
RecordHitCall(ip) ==
  /\ stats._total_requests < MaxRequests
  /\ LET r == record_hit(stats, ip)
     IN  /\ stats' = r.st
         /\ stats_op' = [op |-> "record_hit", ip |-> ip, ret |-> r.ret,
                         outstanding |-> Outstanding(ip),
                         resolved |-> ip \in DOMAIN stats._ip_country_cache]
  /\ hits' = [hits EXCEPT ![ip] = @ + 1]
  /\ UNCHANGED <<http_client, lookups>>
  /\ UNCHANGED <<storeVars, schedVars, model_op>>

\* a caller of the module calls update_country(ip, country)
UpdateCountryCall(ip, country) ==
  /\ stats' = update_country(stats, ip, country)
  /\ stats_op' = [op |-> "update_country", ip |-> ip, country |-> country, outcome |-> "call"]
  /\ UNCHANGED <<http_client, lookups, hits>>
  /\ UNCHANGED <<storeVars, schedVars, model_op>>

StatsApiNext ==
  \E ip \in Ips :
    \/ RecordHitCall(ip)
    \/ \E country \in CountryCodes \cup {Unknown} : UpdateCountryCall(ip, country)

\* ------------------------------------------------- store: concurrent callers
Idle == [pc |-> "idle"]

\* mutant: the lock is not waited for
LockFree_NotWaitedFor(l) == TRUE

\* `with self._lock:` is entered only when no thread holds the lock
LockFree(l) == l = NoThread

\* mutant: logger.info(..., self.count) is still inside the with-block
LockAtLog_StillHeld(t) == t

\* update_from_*: who holds the lock when the with-block has ended and
\* logger.info(..., self.count) is reached
LockAtLog(t) == NoThread

StoreInit ==
  /\ stations = EmptyTable
  /\ lock = NoThread
  /\ thr = [t \in Threads |-> Idle]
  /\ now = Hour
  /\ committed = EmptyTable

\* a thread calls update_from_osmc(stations) or update_from_ndbc(stations)
CallUpdate(t) ==
  /\ thr[t].pc = "idle"
  /\ \E feed \in Feeds : thr' = [thr EXCEPT ![t] = [pc |-> "u_wait", feed |-> feed]]
  /\ UNCHANGED <<stations, lock, now, committed>>
  /\ UNCHANGED <<statsVars, schedVars, model_op>>

\* update_from_*: `with self._lock:`  (the argument `stations`, which the caller
\* fixed at the call and nothing reads before the loop, is drawn here)
UpdateAcquire(t) ==
  /\ thr[t].pc = "u_wait"
  /\ LockFree(lock)
  /\ lock' = t
  /\ \E batch \in Batches(thr[t].feed) :
       thr' = [thr EXCEPT ![t] = [pc |-> "u_loop", feed |-> thr[t].feed, batch |-> batch,
                                  todo |-> batch, pre |-> stations,
                                  s |-> None, existing |-> None]]
  /\ UNCHANGED <<stations, now, committed>>
  /\ UNCHANGED <<statsVars, schedVars, model_op>>

\* update_from_*: one iteration of `for s in stations:`
UpdateStep(t) ==
  /\ thr[t].pc = "u_loop"
  /\ thr[t].todo # <<>>
  /\ stations' = PutStation(stations, Head(thr[t].todo))
  /\ thr' = [thr EXCEPT ![t].todo = Tail(thr[t].todo),
                         ![t].s = <<Head(thr[t].todo)>>,
                         ![t].existing = Get(stations, Head(thr[t].todo).platform_code)]
  /\ UNCHANGED <<lock, now, committed>>
  /\ UNCHANGED <<statsVars, schedVars, model_op>>

\* update_from_*: the loop is over, the with-block releases the lock
UpdateRelease(t) ==
  /\ thr[t].pc = "u_loop"
  /\ thr[t].todo = <<>>
  /\ lock' = LockAtLog(t)
  /\ committed' = ApplyBatch(committed, thr[t].batch)
  /\ thr' = [thr EXCEPT ![t] = [pc |-> "u_log"]]
  /\ UNCHANGED <<stations, now>>
  /\ UNCHANGED <<statsVars, schedVars, model_op>>

\* update_from_*: logger.info(..., self.count) takes the lock again for len()
UpdateLog(t) ==
  /\ thr[t].pc = "u_log"
  /\ LockFree(lock)
  /\ thr' = [thr EXCEPT ![t] = Idle]
  /\ UNCHANGED <<stations, lock, now, committed>>
  /\ UNCHANGED <<statsVars, schedVars, model_op>>

\* a thread calls purge_old(max_age_hours): the cutoff is computed before the lock
CallPurge(t) ==
  /\ thr[t].pc = "idle"
  /\ \E age \in AgeHours :
       thr' = [thr EXCEPT ![t] = [pc |-> "p_wait", max_age_hours |-> age, called_at |-> now,
                                  cutoff |-> Cutoff(now, age)]]
  /\ UNCHANGED <<stations, lock, now, committed>>
  /\ UNCHANGED <<statsVars, schedVars, model_op>>

\* purge_old: `with self._lock:`
PurgeAcquire(t) ==
  /\ thr[t].pc = "p_wait"
  /\ LockFree(lock)
  /\ lock' = t
  /\ thr' = [thr EXCEPT ![t].pc = "p_in"]
  /\ UNCHANGED <<stations, now, committed>>
  /\ UNCHANGED <<statsVars, schedVars, model_op>>

\* purge_old: before, the rebuilt dict, purged
PurgeBody(t) ==
  /\ thr[t].pc = "p_in"
  /\ LET before == Count(stations)
         kept   == PurgeTable(stations, thr[t].cutoff)
     IN  /\ stations' = kept
         /\ thr' = [thr EXCEPT ![t] = [pc |-> "p_out", max_age_hours |-> thr[t].max_age_hours,
                                       called_at |-> thr[t].called_at, cutoff |-> thr[t].cutoff,
                                       pre |-> stations, purged |-> before - Count(kept)]]
  /\ UNCHANGED <<lock, now, committed>>
  /\ UNCHANGED <<statsVars, schedVars, model_op>>

\* purge_old: the with-block releases the lock; return purged
PurgeRelease(t) ==
  /\ thr[t].pc = "p_out"
  /\ lock' = NoThread
  /\ committed' = PurgeTable(committed, thr[t].cutoff)
  /\ thr' = [thr EXCEPT ![t] = Idle]
  /\ UNCHANGED <<stations, now>>
  /\ UNCHANGED <<statsVars, schedVars, model_op>>

\* a thread calls query(...): the cutoff is computed before the lock
CallQuery(t) ==
  /\ thr[t].pc = "idle"
  /\ \E age \in AgeHours :
       thr' = [thr EXCEPT ![t] = [pc |-> "q_wait", max_age_hours |-> age, called_at |-> now,
                                  cutoff |-> Cutoff(now, age)]]
  /\ UNCHANGED <<stations, lock, now, committed>>
  /\ UNCHANGED <<statsVars, schedVars, model_op>>

\* query: `with self._lock:`
QueryAcquire(t) ==
  /\ thr[t].pc = "q_wait"
  /\ LockFree(lock)
  /\ lock' = t
  /\ thr' = [thr EXCEPT ![t].pc = "q_in"]
  /\ UNCHANGED <<stations, now, committed>>
  /\ UNCHANGED <<statsVars, schedVars, model_op>>

\* query: the loop over self._stations.values()  (the bounding box and the type
\* set, which the caller fixed at the call and nothing reads before the loop, are
\* drawn here)
QueryScan(t) ==
  /\ thr[t].pc = "q_in"
  /\ \E bbox \in BBoxes, types \in TypeFilters :
       LET q == [cutoff |-> thr[t].cutoff, bbox |-> bbox, types |-> types]
       IN  thr' = [thr EXCEPT ![t] = [pc |-> "q_out", max_age_hours |-> thr[t].max_age_hours,
                                      called_at |-> thr[t].called_at, q |-> q,
                                      results |-> QueryResults(stations, q)]]
  /\ UNCHANGED <<stations, lock, now, committed>>
  /\ UNCHANGED <<statsVars, schedVars, model_op>>

\* query: the with-block releases the lock; return results
QueryRelease(t) ==
  /\ thr[t].pc = "q_out"
  /\ lock' = NoThread
  /\ thr' = [thr EXCEPT ![t] = Idle]
  /\ UNCHANGED <<stations, now, committed>>
  /\ UNCHANGED <<statsVars, schedVars, model_op>>

\* a thread reads the count property or calls oldest_observation()
CallRead(t) ==
  /\ thr[t].pc = "idle"
  /\ \E op \in {"count", "oldest_observation"} :
       thr' = [thr EXCEPT ![t] = [pc |-> "r_wait", op |-> op]]
  /\ UNCHANGED <<stations, lock, now, committed>>
  /\ UNCHANGED <<statsVars, schedVars, model_op>>

\* count / oldest_observation: `with self._lock:`, the read, the release, the return
ReadDone(t) ==
  /\ thr[t].pc = "r_wait"
  /\ LockFree(lock)
  /\ thr' = [thr EXCEPT ![t] = Idle]
  /\ UNCHANGED <<stations, lock, now, committed>>
  /\ UNCHANGED <<statsVars, schedVars, model_op>>

\* the wall clock advances
Tick ==
  /\ now < MaxClockHours * Hour
  /\ now' = now + Hour
  /\ UNCHANGED <<stations, lock, thr, committed>>
  /\ UNCHANGED <<statsVars, schedVars, model_op>>

StoreNext ==
  \/ \E t \in Threads :
       \/ CallUpdate(t) \/ UpdateAcquire(t) \/ UpdateStep(t) \/ UpdateRelease(t) \/ UpdateLog(t)
       \/ CallPurge(t) \/ PurgeAcquire(t) \/ PurgeBody(t) \/ PurgeRelease(t)
       \/ CallQuery(t) \/ QueryAcquire(t) \/ QueryScan(t) \/ QueryRelease(t)
       \/ CallRead(t) \/ ReadDone(t)
  \/ Tick

\* ------------------------------------------------- fetch tasks and scheduler
TaskIds == {"sched_osmc", "sched_ndbc", "admin_osmc", "admin_ndbc"}
SchedTasks == {"sched_osmc", "sched_ndbc"}
FeedOf(k) == IF k \in {"sched_osmc", "admin_osmc"} THEN "osmc" ELSE "ndbc"
NoTask == [pc |-> "none"]

Max2(a, b) == IF a >= b THEN a ELSE b
Min3(a, b, c) == IF a <= b /\ a <= c THEN a ELSE IF b <= c THEN b ELSE c

\* mutant: fetch_osmc takes the watermark
FetchParams_TakesSince(feed) ==
  IF feed = "osmc" THEN {"client", "since"} ELSE {"client", "metadata"}

\* the parameters of fetchers.osmc.fetch_osmc and fetchers.ndbc.fetch_ndbc_latest
FetchParams(feed) == IF feed = "osmc" THEN {"client"} ELSE {"client", "metadata"}

\* the arguments the fetch task passes: fetch_osmc(client, since=_osmc_since),
\* fetch_ndbc_latest(client, _ndbc_meta)
FetchArgs(feed) == IF feed = "osmc" THEN {"client", "since"} ELSE {"client", "metadata"}

\* a Python call binds only when every argument names a parameter; otherwise it
\* raises TypeError before the function body runs
CallBinds(params, args) == args \subseteq params

\* fetchers.osmc._build_url: the lower time bound of the OSMC request
BuildUrlLowerBound(clock) == clock - OSMC_LOOKBACK_HOURS * Hour

\* mutant: the task has no except clause
TaskCatches_Nothing(error) == FALSE

\* _fetch_*_task: `except Exception` catches every error of the fetch
TaskCatches(error) == TRUE

\* what the request of a fetch can end in: a parsed batch, or an error
\* (network failure, raise_for_status, a document that cannot be read)
FetchErrors == {"network", "http_status", "parse"}

\* the parsed documents a fetch can return
FetchedBatches(feed) == SeqsUpTo(FeedStations(feed), MaxFetched)

SchedInit ==
  /\ sched = [pc |-> "off"]
  /\ tasks = [k \in TaskIds |-> NoTask]
  /\ osmc_since = None
  /\ source_status = [f \in Feeds |-> [last_fetch |-> None, stations |-> 0, status |-> "pending"]]
  /\ settings = [osmc_fetch_interval |-> 900, ndbc_fetch_interval |-> 300, max_obs_age_hours |-> 12]
  /\ fetch_events = [f \in Feeds |-> [ok |-> 0, error |-> 0]]
  /\ admin_fetches = 0

\* mutant: the event is not appended
record_NotAppended(events, source, status) == events

\* fetch_history.record: append one event to the history file
record(events, source, status) == [events EXCEPT ![source][status] = @ + 1]

\* mutant: the except branch replaces the whole status entry
ErrorStatus_Reset(entry) == [last_fetch |-> None, stations |-> 0, status |-> "error"]

\* _fetch_*_task, the except branch: `_source_status[...]["status"] = "error"`
ErrorStatus(entry) == [entry EXCEPT !.status = "error"]

\* _fetch_*_task, the except branch: status "error", one error event
\* (an exception the task does not catch leaves it without either)
FetchFails(k, started, error) ==
  LET feed == FeedOf(k)
  IN  IF TaskCatches(error)
      THEN /\ source_status' = [source_status EXCEPT ![feed] = ErrorStatus(@)]
           /\ fetch_events' = record(fetch_events, feed, "error")
           /\ tasks' = [tasks EXCEPT ![k] = [started EXCEPT !.pc = "done", !.outcome = "error",
                                                          !.error = error]]
      ELSE /\ tasks' = [tasks EXCEPT ![k] = [started EXCEPT !.pc = "done", !.outcome = "raised",
                                                          !.error = error]]
           /\ UNCHANGED <<source_status, fetch_events>>

\* _fetch_*_task from its first line to its first suspension: fetch_start, the
\* call of the fetcher, and the request the fetcher sends
FetchBegins(k) ==
  LET feed    == FeedOf(k)
      started == [pc |-> "awaiting", feed |-> feed, fetch_start |-> now,
                  since |-> IF feed = "osmc" THEN osmc_since ELSE None,
                  request |-> None, outcome |-> "none", error |-> "none"]
  IN  /\ IF ~CallBinds(FetchParams(feed), FetchArgs(feed))
         THEN FetchFails(k, started, "TypeError")
         ELSE /\ tasks' = [tasks EXCEPT ![k] =
                   [started EXCEPT !.request =
                      IF feed = "osmc" THEN <<[lower |-> <<BuildUrlLowerBound(now)>>]>>
                      ELSE <<[lower |-> None]>>]]
              /\ UNCHANGED <<source_status, fetch_events>>
      /\ UNCHANGED <<stations, committed, osmc_since>>

\* mutant: due only once the due time is past
Due_OnlyWhenPast(clock, next_due) == clock > next_due

\* _scheduler: `if now >= osmc_next`
Due(clock, next_due) == clock >= next_due

\* the scheduler's loop body, from `now = time.monotonic()` to the next await
SchedulerBody ==
  LET osmc_due  == Due(now, sched.osmc_next)
      ndbc_due  == Due(now, sched.ndbc_next)
      purge_due == Due(now, sched.purge_next)
      o == IF osmc_due THEN now + settings.osmc_fetch_interval ELSE sched.osmc_next
      n == IF ndbc_due THEN now + settings.ndbc_fetch_interval ELSE sched.ndbc_next
      p == IF purge_due THEN now + PURGE_INTERVAL_SECONDS ELSE sched.purge_next
      kept == IF purge_due THEN PurgeTable(stations, Cutoff(now, settings.max_obs_age_hours))
              ELSE stations
  IN  /\ stations' = kept
      /\ committed' = kept
      /\ tasks' = [k \in TaskIds |->
                     IF (k = "sched_osmc" /\ osmc_due) \/ (k = "sched_ndbc" /\ ndbc_due)
                     THEN [pc |-> "created", feed |-> FeedOf(k)]
                     ELSE tasks[k]]
      /\ sched' = IF osmc_due \/ ndbc_due
                  THEN [pc |-> "gather", osmc_next |-> o, ndbc_next |-> n, purge_next |-> p,
                        wake_at |-> 0]
                  ELSE [pc |-> "sleep", osmc_next |-> o, ndbc_next |-> n, purge_next |-> p,
                        wake_at |-> now + Max2(1, Min3(o, n, p) - now)]

\* lifespan, startup: `_http_client = client`, create_task(_scheduler(client))
Startup ==
  /\ sched.pc = "off"
  /\ ~http_client
  /\ http_client' = TRUE
  /\ sched' = [pc |-> "created", osmc_next |-> 0, ndbc_next |-> 0, purge_next |-> 0, wake_at |-> 0]
  /\ UNCHANGED <<tasks, osmc_since, source_status, settings, fetch_events, admin_fetches>>
  /\ UNCHANGED <<stats, lookups, stats_op, hits, model_op>>
  /\ UNCHANGED storeVars

\* mutant: the cancellation reaches only the tasks that have started
InFlight_OnlyStarted(task) == task.pc = "awaiting"

\* the tasks a cancelled gather cancels: those it waits for that are not done
InFlight(task) == task.pc \in {"created", "awaiting"}

\* lifespan, shutdown: task.cancel() reaches the scheduler at its await and,
\* through gather, the fetch tasks it is waiting for (CancelledError is not an
\* Exception, so their except clause does not run); then `_http_client = None`
Shutdown ==
  /\ sched.pc \in {"created", "gather", "sleep"}
  /\ http_client
  /\ http_client' = FALSE
  /\ sched' = [sched EXCEPT !.pc = "cancelled"]
  /\ tasks' = [k \in TaskIds |->
                 IF k \in SchedTasks /\ sched.pc = "gather" /\ InFlight(tasks[k])
                 THEN [tasks[k] EXCEPT !.pc = "cancelled"]
                 ELSE tasks[k]]
  /\ UNCHANGED <<osmc_since, source_status, settings, fetch_events, admin_fetches>>
  /\ UNCHANGED <<stats, lookups, stats_op, hits, model_op>>
  /\ UNCHANGED storeVars

\* the scheduler task starts: first pass through the loop body
SchedulerStart ==
  /\ sched.pc = "created"
  /\ SchedulerBody
  /\ UNCHANGED <<osmc_since, source_status, settings, fetch_events, admin_fetches>>
  /\ UNCHANGED <<lock, thr, now>>
  /\ UNCHANGED <<statsVars, model_op>>

\* asyncio.sleep(sleep_for) is over: next pass through the loop body
SchedulerWake ==
  /\ sched.pc = "sleep"
  /\ now >= sched.wake_at
  /\ SchedulerBody
  /\ UNCHANGED <<osmc_since, source_status, settings, fetch_events, admin_fetches>>
  /\ UNCHANGED <<lock, thr, now>>
  /\ UNCHANGED <<statsVars, model_op>>

\* a fetch task launched by gather starts (gather starts them in list order)
TaskStart(k) ==
  /\ k \in SchedTasks
  /\ tasks[k].pc = "created"
  /\ k = "sched_ndbc" => tasks["sched_osmc"].pc # "created"
  /\ FetchBegins(k)
  /\ UNCHANGED <<sched, settings, admin_fetches>>
  /\ UNCHANGED <<lock, thr, now>>
  /\ UNCHANGED <<statsVars, model_op>>

\* admin_fetch_osmc / admin_fetch_ndbc: the handler runs the fetch task itself
AdminFetch(feed) ==
  LET k == IF feed = "osmc" THEN "admin_osmc" ELSE "admin_ndbc"
  IN  /\ http_client
      /\ tasks[k].pc = "none"
      /\ admin_fetches < MaxAdminFetches
      /\ admin_fetches' = admin_fetches + 1
      /\ FetchBegins(k)
      /\ UNCHANGED <<sched, settings>>
      /\ UNCHANGED <<lock, thr, now>>
      /\ UNCHANGED <<statsVars, model_op>>

\* a fetch task resumes with the parsed batch: update the store, the watermark
\* (OSMC), the status, and record one "ok" event
FetchSucceeds(k) ==
  /\ tasks[k].pc = "awaiting"
  /\ \E batch \in FetchedBatches(FeedOf(k)) :
       LET feed == FeedOf(k)
           kept == ApplyBatch(stations, batch)
       IN  /\ stations' = kept
           /\ committed' = kept
           /\ osmc_since' = IF feed = "osmc" THEN <<tasks[k].fetch_start - WatermarkOverlap>>
                            ELSE osmc_since
           /\ source_status' = [source_status EXCEPT ![feed] =
                                  [last_fetch |-> <<tasks[k].fetch_start>>,
                                   stations |-> Len(batch), status |-> "ok"]]
           /\ fetch_events' = record(fetch_events, feed, "ok")
           /\ tasks' = [tasks EXCEPT ![k] = [tasks[k] EXCEPT !.pc = "done", !.outcome = "ok"]]
  /\ UNCHANGED <<sched, settings, admin_fetches>>
  /\ UNCHANGED <<lock, thr, now>>
  /\ UNCHANGED <<statsVars, model_op>>

\* the coroutine that is inside store.update_from_* : between FetchReceives and
\* FetchMerges there is no await, so the event loop runs nothing else
Merging == { k \in TaskIds : tasks[k].pc = "merging" }

\* a fetch task resumes with the response: the fetcher parses it and returns
\* the batch, and update_from_* enters `with self._lock:`
FetchReceives(k) ==
  /\ tasks[k].pc = "awaiting"
  /\ Merging = {}
  /\ LockFree(lock)
  /\ lock' = k
  /\ \E batch \in FetchedBatches(FeedOf(k)) :
       tasks' = [tasks EXCEPT ![k] =
                   [pc |-> "merging", feed |-> tasks[k].feed, fetch_start |-> tasks[k].fetch_start,
                    since |-> tasks[k].since, request |-> tasks[k].request,
                    outcome |-> tasks[k].outcome, error |-> tasks[k].error, batch |-> batch]]
  /\ UNCHANGED <<stations, committed, osmc_since, source_status, fetch_events>>
  /\ UNCHANGED <<sched, settings, admin_fetches>>
  /\ UNCHANGED <<thr, now>>
  /\ UNCHANGED <<statsVars, model_op>>

\* mutant: the rest of the task runs inside the with-block
LockAfterMerge_StillHeld(k) == k

\* update_from_*: who holds the lock once the loop and the with-block are over
\* (logger.info takes and releases it once more for self.count)
LockAfterMerge(k) == NoThread

\* the task goes on: the merge loop, the end of the with-block, the watermark
\* (OSMC), the status and one "ok" event
FetchMerges(k) ==
  /\ tasks[k].pc = "merging"
  /\ lock = k
  /\ lock' = LockAfterMerge(k)
  /\ LET feed  == FeedOf(k)
         batch == tasks[k].batch
         kept  == ApplyBatch(stations, batch)
     IN  /\ stations' = kept
         /\ committed' = kept
         /\ osmc_since' = IF feed = "osmc" THEN <<tasks[k].fetch_start - WatermarkOverlap>>
                          ELSE osmc_since
         /\ source_status' = [source_status EXCEPT ![feed] =
                                [last_fetch |-> <<tasks[k].fetch_start>>,
                                 stations |-> Len(batch), status |-> "ok"]]
         /\ fetch_events' = record(fetch_events, feed, "ok")
         /\ tasks' = [tasks EXCEPT ![k] =
                        [pc |-> "done", feed |-> tasks[k].feed, fetch_start |-> tasks[k].fetch_start,
                         since |-> tasks[k].since, request |-> tasks[k].request,
                         outcome |-> "ok", error |-> tasks[k].error]]
  /\ UNCHANGED <<sched, settings, admin_fetches>>
  /\ UNCHANGED <<thr, now>>
  /\ UNCHANGED <<statsVars, model_op>>

\* a fetch task resumes with an error of the request or of the parser
FetchErrs(k) ==
  /\ tasks[k].pc = "awaiting"
  /\ \E error \in FetchErrors : FetchFails(k, tasks[k], error)
  /\ UNCHANGED <<stations, committed, osmc_since>>
  /\ UNCHANGED <<sched, settings, admin_fetches>>
  /\ UNCHANGED <<lock, thr, now>>
  /\ UNCHANGED <<statsVars, model_op>>

\* the admin handler answers with its redirect once its fetch task is over
AdminFetchReturns(k) ==
  /\ k \notin SchedTasks
  /\ tasks[k].pc = "done"
  /\ tasks' = [tasks EXCEPT ![k] = NoTask]
  /\ UNCHANGED <<sched, osmc_since, source_status, settings, fetch_events, admin_fetches>>
  /\ UNCHANGED storeVars
  /\ UNCHANGED <<statsVars, model_op>>

\* mutant: the wait is over as soon as one task is done
GatherDone_FirstCompleted(ts) == \E k \in SchedTasks : ts[k].pc = "done"

\* asyncio.gather(*tasks, ...) is done when every task handed to it is
GatherDone(ts) == \A k \in SchedTasks : ts[k].pc \in {"none", "done"}

\* asyncio.gather(*tasks, return_exceptions=True) is over: compute the sleep
GatherReturns ==
  /\ sched.pc = "gather"
  /\ GatherDone(tasks)
  /\ tasks' = [k \in TaskIds |-> IF k \in SchedTasks /\ tasks[k].pc \in {"none", "done"}
                                 THEN NoTask ELSE tasks[k]]
  /\ sched' = [sched EXCEPT !.pc = "sleep",
                            !.wake_at = now + Max2(1, Min3(sched.osmc_next, sched.ndbc_next,
                                                           sched.purge_next) - now)]
  /\ UNCHANGED <<osmc_since, source_status, settings, fetch_events, admin_fetches>>
  /\ UNCHANGED storeVars
  /\ UNCHANGED <<statsVars, model_op>>

\* the forms an admin submits: osmc_fetch_interval, ndbc_fetch_interval,
\* max_obs_age_hours, each below, on, inside and above its bounds
SubmittedForms ==
  { <<30, 600, 0>>, <<600, 100000, 6>>, <<100000, 30, 200>>,
    <<60, 86400, 1>>, <<86400, 60, 168>> }

\* mutant: only the upper bound is enforced
Clamp_UpperOnly(lo, hi, v) == IF v > hi THEN hi ELSE v

\* admin_save_settings: max(lo, min(hi, v))
Clamp(lo, hi, v) == Max2(lo, IF hi <= v THEN hi ELSE v)

\* admin_save_settings: clamp the three submitted integers into the live settings
AdminSaveSettings(osmc_fetch_interval, ndbc_fetch_interval, max_obs_age_hours) ==
  /\ http_client
  /\ settings' = [osmc_fetch_interval |-> Clamp(60, 86400, osmc_fetch_interval),
                  ndbc_fetch_interval |-> Clamp(60, 86400, ndbc_fetch_interval),
                  max_obs_age_hours   |-> Clamp(1, 168, max_obs_age_hours)]
  /\ model_op' = [op |-> "admin_save_settings",
                  in |-> <<osmc_fetch_interval, ndbc_fetch_interval, max_obs_age_hours>>]
  /\ UNCHANGED <<sched, tasks, osmc_since, source_status, fetch_events, admin_fetches>>
  /\ UNCHANGED storeVars
  /\ UNCHANGED statsVars

\* admin_purge: store.purge_old(settings.max_obs_age_hours), then the redirect
AdminPurge ==
  /\ LET kept == PurgeTable(stations, Cutoff(now, settings.max_obs_age_hours))
     IN  /\ stations' = kept
         /\ committed' = kept
  /\ UNCHANGED <<lock, thr, now>>
  /\ UNCHANGED schedVars
  /\ UNCHANGED <<statsVars, model_op>>

\* time passes
ClockAdvance ==
  /\ now < Hour + MaxClockSteps * ClockStep
  /\ now' = now + ClockStep
  /\ UNCHANGED <<stations, lock, thr, committed>>
  /\ UNCHANGED <<statsVars, model_op>>
  /\ UNCHANGED schedVars

SchedNext ==
  \/ Startup
  \/ Shutdown
  \/ SchedulerStart
  \/ SchedulerWake
  \/ GatherReturns
  \/ ClockAdvance
  \/ \E k \in TaskIds : TaskStart(k) \/ FetchSucceeds(k) \/ FetchErrs(k) \/ AdminFetchReturns(k)
  \/ \E feed \in Feeds : AdminFetch(feed)

\* the scheduler under an admin who edits the settings
DispatchNext ==
  \/ Startup
  \/ SchedulerStart
  \/ SchedulerWake
  \/ GatherReturns
  \/ ClockAdvance
  \/ \E k \in SchedTasks : TaskStart(k) \/ FetchSucceeds(k) \/ FetchErrs(k)
  \/ \E form \in SubmittedForms : AdminSaveSettings(form[1], form[2], form[3])

\* the scheduler and the admin's fetches, with the store's lock in view: a
\* coroutine that is inside update_from_* runs on before any other is resumed
FetchLockNext ==
  \/ (Merging = {} /\ (Startup \/ SchedulerStart \/ SchedulerWake \/ GatherReturns))
  \/ ClockAdvance
  \/ \E k \in TaskIds :
       \/ (Merging = {} /\ (TaskStart(k) \/ FetchErrs(k) \/ AdminFetchReturns(k)))
       \/ FetchReceives(k)
       \/ FetchMerges(k)
  \/ \E feed \in Feeds : Merging = {} /\ AdminFetch(feed)

\* the settings an admin saves and the address the API is asked from while the
\* scheduler and on-demand fetches run
SavedForm == <<60, 86400, 1>>
QueryingIp == "10.0.0.5"

\* the scheduler among the operations that are started from outside it
OwnershipNext ==
  \/ Startup
  \/ SchedulerStart
  \/ SchedulerWake
  \/ GatherReturns
  \/ ClockAdvance
  \/ \E k \in TaskIds : TaskStart(k) \/ FetchSucceeds(k) \/ FetchErrs(k) \/ AdminFetchReturns(k)
  \/ \E feed \in Feeds : AdminFetch(feed)
  \/ AdminPurge
  \/ AdminSaveSettings(SavedForm[1], SavedForm[2], SavedForm[3])
  \/ (stats._total_requests = 0 /\ GetObservations(QueryingIp))

StatsNext ==
  \/ Startup
  \/ Shutdown
  \/ \E ip \in Ips : GetObservations(ip) \/ LookupStart(ip) \/ LookupComplete(ip)

\* ------------------------------------------- records, parsers, serializer
\* the optional measurements of ObservationStation
Measurements ==
  {"wind_dir", "wind_spd", "gust", "pressure", "pressure_tendency", "air_temp", "sea_temp",
   "dewpoint", "wave_ht", "wave_period", "wave_avg_period", "wave_dir", "vis", "water_level",
   "clouds"}

\* an ObservationStation with every measurement present and plausible
FullStation ==
  [platform_code |-> "41008", platform_type |-> "buoy", lat |-> 31, lon |-> -81,
   time |-> <<Hour>>, country |-> <<"US">>, source |-> "ndbc",
   wind_dir |-> <<90>>, wind_spd |-> <<5>>, gust |-> <<7>>, pressure |-> <<1013>>,
   pressure_tendency |-> <<1>>, air_temp |-> <<20>>, sea_temp |-> <<18>>, dewpoint |-> <<10>>,
   wave_ht |-> <<2>>, wave_period |-> <<6>>, wave_avg_period |-> <<5>>, wave_dir |-> <<180>>,
   vis |-> <<10>>, water_level |-> <<1>>, clouds |-> <<4>>]

\* the same with no measurement and no country
BareStation ==
  [f \in DOMAIN FullStation |->
     IF f \in Measurements \cup {"country"} THEN None ELSE FullStation[f]]

\* mutant: the modulo is applied to every longitude
normalize_lon_Always(lon) == ((lon + 180) % 360) - 180

\* normalize, longitude: only a value outside [-180, 180] is wrapped
normalize_lon(lon) ==
  IF lon < -180 \/ lon > 180 THEN ((lon + 180) % 360) - 180 ELSE lon

\* `if v is not None and not (lo <= v <= hi): v = None`
ClearOutside(v, lo, hi) == IF v # None /\ ~(lo <= v[1] /\ v[1] <= hi) THEN None ELSE v

\* `if v is not None and v < 0.0: v = None`
ClearNegative(v) == IF v # None /\ v[1] < 0 THEN None ELSE v

\* ObservationStation.normalize
normalize(s) ==
  [s EXCEPT !.lon      = normalize_lon(s.lon),
            !.wind_dir = ClearOutside(s.wind_dir, 0, 360),
            !.wind_spd = ClearNegative(s.wind_spd),
            !.gust     = ClearNegative(s.gust),
            !.pressure = ClearOutside(s.pressure, 800, 1100),
            !.air_temp = ClearOutside(s.air_temp, -90, 60),
            !.sea_temp = ClearOutside(s.sea_temp, -5, 40),
            !.wave_ht  = ClearNegative(s.wave_ht),
            !.vis      = ClearNegative(s.vis)]

\* mutant: the latitude is not looked at
is_valid_IgnoresLat(s) ==
  /\ s.platform_code # ""
  /\ -180 <= s.lon /\ s.lon <= 180

\* ObservationStation.is_valid
is_valid(s) ==
  /\ s.platform_code # ""
  /\ -90 <= s.lat /\ s.lat <= 90
  /\ -180 <= s.lon /\ s.lon <= 180

\* a data row of a feed's document, cell by cell: a numeric cell that is
\* empty, the feed's missing-value token or not a number is None.  `cells`
\* tells whether the row has the columns the NDBC parser asks for.
FullRow ==
  [platform_code |-> "41008", platform_type |-> "buoy", lat |-> <<31>>, lon |-> <<-81>>,
   time |-> <<Hour>>, country |-> <<"US">>, cells |-> TRUE,
   wind_dir |-> <<90>>, wind_spd |-> <<5>>, gust |-> <<7>>, pressure |-> <<1013>>,
   pressure_tendency |-> <<1>>, air_temp |-> <<20>>, sea_temp |-> <<18>>, dewpoint |-> <<10>>,
   wave_ht |-> <<2>>, wave_period |-> <<6>>, wave_avg_period |-> <<5>>, wave_dir |-> <<180>>,
   vis |-> <<10>>, water_level |-> <<1>>, clouds |-> <<4>>]

\* the values a row's cell takes besides the one of FullRow: absent, and the
\* values around the bounds the code tests
CellValues(f) ==
  CASE f = "lat"      -> {None, <<-91>>, <<-90>>, <<90>>, <<91>>}
    [] f = "lon"      -> {None, <<-181>>, <<-180>>, <<180>>, <<181>>, <<350>>, <<-540>>}
    [] f = "time"     -> {None}
    [] f = "wind_dir" -> {None, <<-1>>, <<0>>, <<360>>, <<361>>}
    [] f = "pressure" -> {None, <<799>>, <<800>>, <<1100>>, <<1101>>}
    [] f = "air_temp" -> {None, <<-91>>, <<-90>>, <<60>>, <<61>>}
    [] f = "sea_temp" -> {None, <<-6>>, <<-5>>, <<40>>, <<41>>}
    [] f \in {"wind_spd", "gust", "wave_ht", "vis"} -> {None, <<-1>>, <<0>>}
    [] OTHER          -> {None}

RawRows ==
  {FullRow, [FullRow EXCEPT !.platform_code = ""], [FullRow EXCEPT !.cells = FALSE],
   [FullRow EXCEPT !.platform_code = "KBGJ", !.lon = <<190>>, !.wind_spd = <<-3>>,
                   !.pressure = <<2000>>, !.vis = <<-2>>, !.gust = None]}
  \cup UNION { { [FullRow EXCEPT ![f] = v] : v \in CellValues(f) } :
               f \in Measurements \cup {"lat", "lon", "time"} }

Documents == SeqsUpTo(RawRows, MaxRows)

\* _nmi_to_m and _ft_to_m, to whole metres
NmiToM(v) == IF v = None THEN None ELSE <<v[1] * 1852>>
FtToM(v) == IF v = None THEN None ELSE <<(v[1] * 3048) \div 10000>>

\* the body of a parser's loop up to the construction of the record: None when
\* the row is skipped.  (The synthetic key of an OSMC row whose code is "SHIP"
\* is another non-empty code and is left out.)
RowToStation(feed, row) ==
  IF feed = "osmc"
  THEN IF row.time = None \/ row.lat = None \/ row.lon = None \/ row.platform_code = ""
       THEN None
       ELSE <<[BareStation EXCEPT
                 !.platform_code = row.platform_code, !.platform_type = row.platform_type,
                 !.lat = row.lat[1], !.lon = row.lon[1], !.time = row.time,
                 !.country = row.country, !.source = "osmc",
                 !.sea_temp = row.sea_temp, !.air_temp = row.air_temp,
                 !.pressure = row.pressure, !.wind_spd = row.wind_spd,
                 !.wind_dir = IF row.wind_dir = <<0>> THEN None ELSE row.wind_dir,
                 !.wave_ht = row.wave_ht, !.water_level = row.water_level,
                 !.clouds = row.clouds, !.dewpoint = row.dewpoint]>>
  ELSE IF ~row.cells \/ row.lat = None \/ row.lon = None \/ row.time = None
       THEN None
       ELSE <<[f \in DOMAIN BareStation |->
                 CASE f = "lat" -> row.lat[1]
                   [] f = "lon" -> row.lon[1]
                   [] f = "country" -> <<"US">>
                   [] f = "source" -> "ndbc"
                   [] f = "vis" -> NmiToM(row.vis)
                   [] f = "water_level" -> FtToM(row.water_level)
                   [] OTHER -> row[f]]>>

\* parse_osmc_csv / parse_ndbc_latest_obs: the loop over the data rows
RECURSIVE parse_rows(_, _)
parse_rows(feed, rows) ==
  IF rows = <<>> THEN <<>>
  ELSE LET made == RowToStation(feed, Head(rows))
           rest == parse_rows(feed, Tail(rows))
       IN  IF made = None THEN rest
           ELSE LET station == normalize(made[1])
                IN  IF ~is_valid(station) THEN rest ELSE <<station>> \o rest

\* to_api_dict: the keys of _optional
ApiOptional ==
  {"wind_dir", "wind_spd", "gust", "pressure", "air_temp", "sea_temp", "wave_ht", "vis"}

\* round(v, digits) of a whole number
Round(v, digits) == v

\* ObservationStation.to_api_dict: a dict, with the keys it holds as its domain
to_api_dict(s) ==
  LET keys == {"id", "type", "lat", "lon", "time"}
                \cup (IF s.country # None /\ s.country # <<"">> THEN {"country"} ELSE {})
                \cup {f \in ApiOptional : s[f] # None}
  IN  [f \in keys |->
         CASE f = "id" -> s.platform_code
           [] f = "type" -> s.platform_type
           [] f = "lat" -> Round(s.lat, 4)
           [] f = "lon" -> Round(s.lon, 4)
           [] f = "time" -> s.time[1]
           [] f = "country" -> s.country[1]
           [] OTHER -> Round(s[f][1], 2)]

\* the records handed to normalize: every longitude, and every cell value
NormalizeInputs ==
  { [FullStation EXCEPT !.lon = l] : l \in (0 - MaxLon)..MaxLon }
  \cup UNION { { [FullStation EXCEPT ![f] = v] : v \in CellValues(f) } : f \in Measurements }

Elems(q) == { q[i] : i \in 1..Len(q) }

\* the records handed to to_api_dict: what the parsers make of one row, and
\* records with a single measurement present or a single one absent
ApiInputs ==
  UNION { Elems(parse_rows(feed, <<row>>)) : feed \in Feeds, row \in RawRows }
  \cup { [BareStation EXCEPT ![f] = <<1>>] : f \in Measurements }
  \cup { [FullStation EXCEPT ![f] = None] : f \in Measurements }

NoCall == [op |-> "none"]

ModelsInit == model_op = NoCall

NormalizeCall(s) ==
  /\ model_op = NoCall
  /\ model_op' = [op |-> "normalize", in |-> s, out |-> normalize(s)]
  /\ UNCHANGED <<storeVars, statsVars, schedVars>>

ParseCall(feed, rows) ==
  /\ model_op = NoCall
  /\ model_op' = [op |-> "parse", feed |-> feed, in |-> rows, out |-> parse_rows(feed, rows)]
  /\ UNCHANGED <<storeVars, statsVars, schedVars>>

ToApiDictCall(s) ==
  /\ model_op = NoCall
  /\ model_op' = [op |-> "to_api_dict", in |-> s, out |-> to_api_dict(s)]
  /\ UNCHANGED <<storeVars, statsVars, schedVars>>

ModelsNext ==
  \/ \E s \in NormalizeInputs : NormalizeCall(s)
  \/ \E feed \in Feeds, rows \in Documents : ParseCall(feed, rows)
  \/ \E s \in ApiInputs : ToApiDictCall(s)

\* ------------------------------------------------------------ specifications
Init == StoreInit /\ StatsInit /\ SchedInit /\ ModelsInit

\* single calls of normalize, the parsers and to_api_dict
ModelsSpec == Init /\ [][ModelsNext]_vars

\* the scheduler, its fetch tasks and the admin's on-demand fetches
SchedSpec == Init /\ [][SchedNext]_vars

\* the same, step by step through the store's lock
FetchLockSpec == Init /\ [][FetchLockNext]_vars

\* the scheduler, on-demand fetches, the admin's purge and settings, API requests
OwnershipSpec == Init /\ [][OwnershipNext]_vars

\* the scheduler and the settings form
DispatchSpec == Init /\ [][DispatchNext]_vars

\* the event loop runs every task that is ready, and every request ends (the
\* client's timeout turns a silent peer into an error)
SchedFairness ==
  /\ WF_vars(GatherReturns)
  /\ \A k \in TaskIds : WF_vars(TaskStart(k) \/ FetchSucceeds(k) \/ FetchErrs(k))
SchedFairSpec == SchedSpec /\ SchedFairness

\* concurrent callers of one StationStore
StoreSpec == Init /\ [][StoreNext]_vars

\* a thread that waits for a lock which is free again and again gets it, and a
\* thread inside the with-block runs on
StoreFairness ==
  \A t \in Threads :
    /\ SF_vars(UpdateAcquire(t) \/ PurgeAcquire(t) \/ QueryAcquire(t) \/ ReadDone(t) \/ UpdateLog(t))
    /\ WF_vars(UpdateStep(t) \/ UpdateRelease(t) \/ PurgeBody(t) \/ PurgeRelease(t)
                 \/ QueryScan(t) \/ QueryRelease(t))
StoreFairSpec == StoreSpec /\ StoreFairness

\* the requests and lookups of the running application
StatsSpec == Init /\ [][StatsNext]_vars

\* the event loop runs every task it holds, and the request of a lookup ends
\* (answer, error or its 5 s timeout)
StatsFairSpec ==
  /\ StatsSpec
  /\ \A ip \in Ips : WF_vars(LookupStart(ip)) /\ WF_vars(LookupComplete(ip))

\* free callers of the two operations of app/stats.py
StatsApiSpec == Init /\ [][StatsApiNext]_vars

\* ===================================================================== claims
Values(tbl) == { tbl[c] : c \in DOMAIN tbl }
BatchCodes(batch) == { batch[i].platform_code : i \in 1..Len(batch) }
Occurrences(batch, code) == { i \in 1..Len(batch) : batch[i].platform_code = code }

\* C1: every query result is the filter applied to the table left by a sequence
\* of complete batches and purges (committed); a query never sees part of a
\* batch or of a purge, and whenever no operation holds the lock the table is
\* that committed table.
C1_QueryObservesCompleteOperations ==
  /\ \A t \in Threads :
       thr[t].pc = "q_out" => thr[t].results = QueryResults(committed, thr[t].q)
  /\ lock = NoThread => stations = committed

\* C1 witness: a query has returned a non-empty result while the other thread
\* is waiting for the lock with a batch or a purge.
C1_Witness ==
  \E t, u \in Threads :
    /\ thr[t].pc = "q_out" /\ thr[t].results # {}
    /\ thr[u].pc \in {"u_wait", "p_wait"}

\* C2: merge_station returns one of its two arguments whole: the incoming record
\* when incoming.time >= existing.time (a tie included), the existing one
\* otherwise.  Checked on the record stored by the loop iteration that merged.
C2_MergeKeepsOneRecordWhole ==
  \A t \in Threads :
    (thr[t].pc = "u_loop" /\ thr[t].s # None /\ thr[t].existing # None) =>
      LET incoming == thr[t].s[1]
          existing == thr[t].existing[1]
          stored   == stations[incoming.platform_code]
      IN  /\ stored \in {existing, incoming}
          /\ (incoming.time >= existing.time) => stored = incoming
          /\ (incoming.time < existing.time) => stored = existing

\* C2 witness: a tie between two different records was merged, and the incoming one is stored.
C2_Witness ==
  \E t \in Threads :
    /\ thr[t].pc = "u_loop" /\ thr[t].s # None /\ thr[t].existing # None
    /\ thr[t].s[1].time = thr[t].existing[1].time
    /\ thr[t].s[1] # thr[t].existing[1]
    /\ stations[thr[t].s[1].platform_code] = thr[t].s[1]

\* C3: when the loop of update_from_osmc / update_from_ndbc is over: every code
\* of the batch is present; each iteration inserted its record when the code was
\* absent and stored merge_station(existing, incoming) when it was present (for a
\* code that occurs once in the batch, existing is the record held before the
\* call); entries of other codes are unchanged; the count grew by the number of
\* distinct codes of the batch that were absent before.
C3_ApplyBatchPostcondition ==
  \A t \in Threads :
    /\ (thr[t].pc = "u_loop" /\ thr[t].s # None) =>
         stations[thr[t].s[1].platform_code] =
           IF thr[t].existing = None THEN thr[t].s[1]
           ELSE merge_station(thr[t].existing[1], thr[t].s[1])
    /\ (thr[t].pc = "u_loop" /\ thr[t].todo = <<>>) =>
         LET batch == thr[t].batch
             pre   == thr[t].pre
         IN  /\ DOMAIN stations = (DOMAIN pre) \cup BatchCodes(batch)
             /\ \A i \in 1..Len(batch) :
                  Cardinality(Occurrences(batch, batch[i].platform_code)) = 1 =>
                    stations[batch[i].platform_code] =
                      IF batch[i].platform_code \notin DOMAIN pre THEN batch[i]
                      ELSE merge_station(pre[batch[i].platform_code], batch[i])
             /\ \A c \in (DOMAIN pre) \ BatchCodes(batch) : stations[c] = pre[c]
             /\ Count(stations) = Count(pre) + Cardinality(BatchCodes(batch) \ DOMAIN pre)

\* C3 witness: a two-record batch has been applied that updated one stored code
\* with an older record (merge kept the stored one) and added one new code.
C3_Witness ==
  \E t \in Threads :
    /\ thr[t].pc = "u_loop" /\ thr[t].todo = <<>> /\ Len(thr[t].batch) = 2
    /\ Cardinality(BatchCodes(thr[t].batch) \cap DOMAIN thr[t].pre) = 1
    /\ Cardinality(BatchCodes(thr[t].batch) \ DOMAIN thr[t].pre) = 1
    /\ Count(stations) = Count(thr[t].pre) + 1
    /\ \E i \in 1..2 : /\ thr[t].batch[i].platform_code \in DOMAIN thr[t].pre
                        /\ stations[thr[t].batch[i].platform_code] # thr[t].batch[i]

\* C4: purge_old removes exactly the entries whose time is strictly before
\* now - max_age_hours (now as read by the call), keeps the others unchanged,
\* an entry exactly at the cutoff included, and returns the number removed.
C4_PurgeExact ==
  \A t \in Threads :
    thr[t].pc = "p_out" =>
      LET pre    == thr[t].pre
          limit  == thr[t].called_at - thr[t].max_age_hours * Hour
          stale  == { c \in DOMAIN pre : pre[c].time < limit }
      IN  /\ DOMAIN stations = (DOMAIN pre) \ stale
          /\ \A c \in DOMAIN stations : stations[c] = pre[c]
          /\ thr[t].purged = Cardinality(stale)
          /\ thr[t].purged = Count(pre) - Count(stations)

\* C4 witness: a purge removed one entry older than the cutoff and kept one exactly at it.
C4_Witness ==
  \E t \in Threads :
    /\ thr[t].pc = "p_out" /\ thr[t].purged = 1
    /\ \E c \in DOMAIN stations : stations[c].time = thr[t].called_at - thr[t].max_age_hours * Hour
    /\ \E c \in DOMAIN thr[t].pre : c \notin DOMAIN stations

\* C5 (as claimed): query returns exactly the stored entries with
\* time >= now - max_age_hours inside the inclusive bounding box and, when a type
\* set is given, with platform_type in that set; the store is unchanged.
C5_QueryExact_AsClaimed ==
  \A t \in Threads :
    thr[t].pc = "q_out" =>
      LET q     == thr[t].q
          limit == thr[t].called_at - thr[t].max_age_hours * Hour
      IN  /\ thr[t].results =
               { s \in Values(stations) :
                   /\ s.time >= limit
                   /\ q.bbox.lat_min <= s.lat /\ s.lat <= q.bbox.lat_max
                   /\ q.bbox.lon_min <= s.lon /\ s.lon <= q.bbox.lon_max
                   /\ (q.types # NoTypes => s.platform_type \in q.types[1]) }
          /\ stations = committed


\* C6: at most one lookup of an address is outstanding; record_hit asks for a
\* lookup only when none is outstanding and the address is not resolved, and an
\* address has its outstanding flag set exactly while a lookup is in flight; the
\* bucket of every country holds all hits of the addresses resolved to it, and
\* Local all hits of the private addresses.
C6_LookupCoalescing ==
  /\ \A ip \in Ips :
       /\ Outstanding(ip) <= 1
       /\ (Outstanding(ip) = 1) <=> (ip \in stats._pending_lookups)
       /\ ip \in stats._pending_lookups => ip \notin DOMAIN stats._ip_country_cache
  /\ (stats_op.op = "record_hit" /\ stats_op.ret) =>
       (stats_op.outstanding = 0 /\ ~stats_op.resolved /\ ~_is_private(stats_op.ip))
  /\ \A c \in CountryCodes \cup {Unknown} :
       Read(stats._country_counts, c) =
         SumOver(hits, { ip \in DOMAIN stats._ip_country_cache : stats._ip_country_cache[ip] = c })
  /\ Read(stats._country_counts, "Local") = SumOver(hits, { ip \in Ips : _is_private(ip) })

\* C6 witness: an address hit twice while unresolved (one lookup) has just been
\* resolved, and both hits are in the country's bucket.
C6_Witness ==
  /\ stats_op.op = "update_country"
  /\ stats_op.country \in CountryCodes
  /\ hits[stats_op.ip] = 2
  /\ stats._ip_country_cache[stats_op.ip] = stats_op.country
  /\ stats._country_counts[stats_op.country] = 2

\* C7: update_country(A, C) clears A's outstanding flag and nobody else's; when
\* A is already cached the cache, the buckets and the buffer stay as they are;
\* otherwise A is cached as C, A's buffered hits are added to C's bucket and A
\* leaves the buffer in the same step, every other bucket and buffer entry
\* unchanged.
C7_UpdateCountry ==
  [][ stats_op'.op = "update_country" =>
        LET A   == stats_op'.ip
            C   == stats_op'.country
            old == stats
            new == stats'
        IN  /\ new._pending_lookups = old._pending_lookups \ {A}
            /\ new._total_requests = old._total_requests
            /\ IF A \in DOMAIN old._ip_country_cache
               THEN /\ new._ip_country_cache = old._ip_country_cache
                    /\ new._country_counts = old._country_counts
                    /\ new._ip_hit_count = old._ip_hit_count
               ELSE /\ DOMAIN new._ip_country_cache = (DOMAIN old._ip_country_cache) \cup {A}
                    /\ new._ip_country_cache[A] = C
                    /\ \A ip \in DOMAIN old._ip_country_cache :
                         new._ip_country_cache[ip] = old._ip_country_cache[ip]
                    /\ A \notin DOMAIN new._ip_hit_count
                    /\ \A ip \in Ips \ {A} :
                         Read(new._ip_hit_count, ip) = Read(old._ip_hit_count, ip)
                    /\ Read(new._country_counts, C) =
                         Read(old._country_counts, C) + Read(old._ip_hit_count, A)
                    /\ \A c \in (CountryCodes \cup {Unknown, "Local"}) \ {C} :
                         Read(new._country_counts, c) = Read(old._country_counts, c)
    ]_vars

\* C7 witness: a resolution for an address that was already cached under another
\* country has been discarded.
C7_Witness ==
  /\ stats_op.op = "update_country"
  /\ stats_op.ip \in DOMAIN stats._ip_country_cache
  /\ stats._ip_country_cache[stats_op.ip] # stats_op.country

\* C8: every address with a lookup asked for is eventually resolved and its
\* buffered hits leave the buffer; a lookup that fails (no client, non-success
\* answer, exception) resolves through update_country with "Unknown".
C8_LookupEventuallyResolves ==
  /\ \A ip \in Ips :
       (ip \in stats._pending_lookups) ~>
         (ip \in DOMAIN stats._ip_country_cache /\ ip \notin DOMAIN stats._ip_hit_count)
  /\ [](stats_op.op # "lookup died")
  /\ []((stats_op.op = "update_country" /\ stats_op.outcome \in {"no client", "fail", "raises"})
          => stats_op.country = Unknown)

\* C8 witness: a lookup whose request raised has resolved its address to Unknown
\* and its buffered hit is in the Unknown bucket.
C8_Witness ==
  /\ stats_op.op = "update_country"
  /\ stats_op.outcome = "raises"
  /\ stats._ip_country_cache[stats_op.ip] = Unknown
  /\ stats_op.ip \notin stats._pending_lookups
  /\ stats_op.ip \notin DOMAIN stats._ip_hit_count
  /\ Read(stats._country_counts, Unknown) >= 1

\* C9: every OSMC fetch sends a request: the first one, issued while there is
\* no watermark, asks for the fixed lookback window, and one issued after a
\* successful fetch that started at T asks for the data since T - 5 minutes.
\* As claimed; the model refutes it.
C9_WatermarkIsLowerBound_AsClaimed ==
  \A k \in TaskIds :
    (FeedOf(k) = "osmc" /\ tasks[k].pc \in {"awaiting", "done"}) =>
      /\ tasks[k].request # None
      /\ tasks[k].request[1].lower =
           (IF tasks[k].since = None
            THEN <<tasks[k].fetch_start - OSMC_LOOKBACK_HOURS * Hour>>
            ELSE tasks[k].since)

FailureStep(k) ==
  /\ tasks[k].pc # "done"
  /\ tasks'[k].pc = "done"
  /\ tasks'[k].outcome # "ok"

Launched(k) == tasks[k].pc # "created" /\ tasks'[k].pc = "created"

NextDue(s, k) == IF k = "sched_osmc" THEN s.osmc_next ELSE s.ndbc_next

Interval(k) ==
  IF k = "sched_osmc" THEN settings.osmc_fetch_interval ELSE settings.ndbc_fetch_interval

\* C10: the step in which a fetch task fails sets that source's status to
\* "error" and changes nothing else: not the other tasks (which go on to apply
\* their batches), not the other source's status, not the store, not the
\* scheduler. The scheduler launches a feed's task only when its next_due has
\* come, setting the next one a whole interval later, and a gather whose tasks
\* failed still returns, so the loop goes back to sleep.
C10_FetchFailureIsContained ==
  /\ [][\A k \in TaskIds : FailureStep(k) =>
          /\ source_status'[FeedOf(k)].status = "error"
          /\ \A f \in Feeds \ {FeedOf(k)} : source_status'[f] = source_status[f]
          /\ \A o \in TaskIds \ {k} : tasks'[o] = tasks[o]
          /\ stations' = stations
          /\ sched' = sched]_vars
  /\ [][\A k \in SchedTasks : Launched(k) =>
          /\ now >= NextDue(sched, k)
          /\ NextDue(sched', k) = now + Interval(k)]_vars
  /\ (sched.pc = "gather") ~> (sched.pc \in {"sleep", "cancelled"})

\* one tick's OSMC task has failed, the NDBC task launched with it has applied
\* its batch, and the scheduler is asleep until the next due time
C10_Witness ==
  /\ sched.pc = "sleep"
  /\ source_status["osmc"].status = "error"
  /\ source_status["ndbc"].status = "ok"
  /\ source_status["ndbc"].stations > 0
  /\ stations # EmptyTable
  /\ fetch_events["osmc"].error > 0
  /\ fetch_events["ndbc"].ok > 0
  /\ fetch_events["ndbc"].error = 0
  /\ admin_fetches = 0

\* ---- C11
\* a fetch task that has run (has called its fetcher) comes to its end
AttemptEnds(k) ==
  /\ tasks[k].pc \in {"none", "created", "awaiting"}
  /\ tasks'[k].pc \in {"done", "cancelled"}
  /\ tasks[k].pc = "awaiting" \/ tasks'[k].pc = "done"

EventsOf(events, feed) == events[feed]["ok"] + events[feed]["error"]

TickStep ==
  /\ sched.pc \in {"created", "sleep"}
  /\ sched'.pc \in {"gather", "sleep"}
  /\ sched' # sched

\* C12: on the first tick both fetches and the purge are due. In every tick a
\* fetch task is launched if and only if now >= its next_due, and the purge
\* runs if and only if now >= its next_due; a launched task's next_due becomes
\* now + the interval the live settings hold at that moment (the fixed purge
\* interval for the purge), and the next_due of a task not launched stays.
\* Outside a tick no task is launched and no next_due changes.
C12_SchedulerDispatch ==
  /\ [][TickStep =>
          /\ sched.pc = "created" =>
                /\ \A k \in SchedTasks : tasks'[k].pc = "created"
                /\ sched'.purge_next = now + PURGE_INTERVAL_SECONDS
          /\ \A k \in SchedTasks :
                /\ tasks'[k].pc = "created" <=> now >= NextDue(sched, k)
                /\ tasks'[k].pc # "created" => tasks'[k] = tasks[k]
                /\ NextDue(sched', k) = IF now >= NextDue(sched, k)
                                        THEN now + Interval(k)
                                        ELSE NextDue(sched, k)
          /\ IF now >= sched.purge_next
             THEN /\ stations' = PurgeTable(stations, Cutoff(now, settings.max_obs_age_hours))
                  /\ sched'.purge_next = now + PURGE_INTERVAL_SECONDS
             ELSE /\ stations' = stations
                  /\ sched'.purge_next = sched.purge_next]_vars
  /\ [][(~TickStep /\ sched.pc # "off") =>
          /\ \A k \in SchedTasks : ~Launched(k) /\ NextDue(sched', k) = NextDue(sched, k)
          /\ sched'.purge_next = sched.purge_next]_vars

\* the NDBC task was launched at 3600 under the default interval of 300 s, the
\* admin then set another interval, and the launch at 3900 has set the next
\* due time by the new interval
C12_Witness ==
  /\ now = Hour + ClockStep
  /\ tasks["sched_ndbc"].pc = "created"
  /\ settings.ndbc_fetch_interval = 600
  /\ sched.ndbc_next = now + 600
  /\ sched.osmc_next = Hour + 900
  /\ tasks["sched_osmc"].pc = "none"

\* ---- C13
\* the step in which a fetch run by an admin handler comes to its end
AdminAttemptEnds == \E k \in TaskIds \ SchedTasks : AttemptEnds(k)

\* C13: the shutdown step ends the scheduler and every fetch task it is
\* waiting for, without touching the store, the statuses, the history or the
\* watermark. Once the scheduler is cancelled it never runs again, its fetch
\* tasks stay as they ended, and the store, the statuses, the history and the
\* watermark no longer change (but for a fetch run by an admin handler that
\* was still in flight).
C13_ShutdownStopsScheduler ==
  /\ [](sched.pc = "cancelled" =>
          \A k \in SchedTasks : tasks[k].pc \in {"none", "done", "cancelled"})
  /\ [][(sched.pc \in {"created", "gather", "sleep"} /\ sched'.pc = "cancelled") =>
          /\ \A k \in SchedTasks :
                tasks[k].pc \in {"created", "awaiting"} => tasks'[k].pc = "cancelled"
          /\ stations' = stations
          /\ source_status' = source_status
          /\ fetch_events' = fetch_events
          /\ osmc_since' = osmc_since]_vars
  /\ [][sched.pc = "cancelled" =>
          /\ sched' = sched
          /\ \A k \in SchedTasks : tasks'[k] = tasks[k]
          /\ osmc_since' = osmc_since
          /\ ~AdminAttemptEnds =>
                /\ stations' = stations
                /\ source_status' = source_status
                /\ fetch_events' = fetch_events]_vars

\* the shutdown came while the NDBC request was in flight and after the OSMC
\* task of the same tick had failed: the NDBC status is still "pending"
C13_Witness ==
  /\ sched.pc = "cancelled"
  /\ tasks["sched_ndbc"].pc = "cancelled"
  /\ "request" \in DOMAIN tasks["sched_ndbc"]
  /\ tasks["sched_osmc"].pc = "done"
  /\ source_status["ndbc"].status = "pending"
  /\ fetch_events["ndbc"]["ok"] + fetch_events["ndbc"]["error"] = 0
  /\ now > Hour

\* ---- C14
Congruent360(a, b) == (a - b) % 360 = 0

InItsRange(f, v) ==
  CASE f = "wind_dir" -> 0 <= v /\ v <= 360
    [] f = "pressure" -> 800 <= v /\ v <= 1100
    [] f = "air_temp" -> -90 <= v /\ v <= 60
    [] f = "sea_temp" -> -5 <= v /\ v <= 40
    [] OTHER          -> 0 <= v

RECURSIVE RowByRow(_, _)
RowByRow(feed, rows) ==
  IF rows = <<>> THEN <<>>
  ELSE parse_rows(feed, <<Head(rows)>>) \o RowByRow(feed, Tail(rows))

C17_MeasurementsEmittedIffPresent_AsClaimed ==
  model_op.op = "to_api_dict" =>
    \A f \in Measurements : f \in DOMAIN model_op.out <=> model_op.in[f] # None

\* ---- C16
\* the bound of [lo, hi] nearest to v, or v itself when it lies inside
Nearest(lo, hi, v) == IF v < lo THEN lo ELSE IF v > hi THEN hi ELSE v

\* C16: once the settings form has been saved, the live settings hold, for
\* each of the three submitted integers, the integer itself when it lies in
\* its range and the nearest bound of the range otherwise: the two fetch
\* intervals in [60, 86400], max_obs_age_hours in [1, 168].
C16_SettingsClamped ==
  model_op.op = "admin_save_settings" =>
    /\ settings.osmc_fetch_interval = Nearest(60, 86400, model_op.in[1])
    /\ settings.ndbc_fetch_interval = Nearest(60, 86400, model_op.in[2])
    /\ settings.max_obs_age_hours = Nearest(1, 168, model_op.in[3])
    /\ settings.osmc_fetch_interval \in 60..86400
    /\ settings.ndbc_fetch_interval \in 60..86400
    /\ settings.max_obs_age_hours \in 1..168

\* a form with one value above, one below and one above its range was saved
C16_Witness ==
  /\ model_op.op = "admin_save_settings"
  /\ model_op.in = <<100000, 30, 200>>
  /\ settings = [osmc_fetch_interval |-> 86400, ndbc_fetch_interval |-> 60,
                 max_obs_age_hours |-> 168]

\* ---- C18
\* the step in which thread t ends the with-block of an update
UpdateEnds(t) == thr[t].pc = "u_loop" /\ thr'[t].pc = "u_log"

\* batches of one or two records of any feed
MixedBatches == SeqsUpTo(AllStations, 2)

\* C18: merge(merge(a, b), b) = merge(a, b) for all records a and b of one
\* platform_code; and when an update has applied its batch, applying the same
\* batch once more would leave the table as it is (the same for any batch
\* applied twice to that table).
C18_MergeIdempotent ==
  [][\A t \in Threads : UpdateEnds(t) =>
        /\ \A a, b \in AllStations :
              a.platform_code = b.platform_code =>
                merge_station(merge_station(a, b), b) = merge_station(a, b)
        /\ ApplyBatch(stations', thr[t].batch) = stations'
        /\ \A B \in MixedBatches :
              ApplyBatch(ApplyBatch(stations', B), B) = ApplyBatch(stations', B)]_vars

\* an NDBC batch has just been merged into a table that held the OSMC record
\* of the same platform and the same time
C18_Witness ==
  \E t \in Threads :
    /\ thr[t].pc = "u_loop"
    /\ thr[t].todo = <<>>
    /\ thr[t].feed = "ndbc"
    /\ Len(thr[t].batch) = 2
    /\ thr[t].batch[1].platform_code = thr[t].batch[2].platform_code
    /\ thr[t].batch[1].time > thr[t].batch[2].time
    /\ Get(thr[t].pre, thr[t].batch[1].platform_code) # None
    /\ thr[t].pre[thr[t].batch[1].platform_code].source = "osmc"
    /\ thr[t].pre[thr[t].batch[1].platform_code].time = thr[t].batch[1].time
    /\ stations[thr[t].batch[1].platform_code] = thr[t].batch[1]
    /\ ApplyBatch(stations, thr[t].batch) = stations

\* ---- C19
\* C19: for two records a and b of one platform_code with different times,
\* merge(a, b) = merge(b, a), and the table is the same whichever of the two
\* is applied first; with equal times merge returns its second argument, and
\* (unless the table holds a newer record) the one applied last is stored.
\* Stated of every table the store holds between two operations.
C19_MergeOrder ==
  \A a \in FeedStations("osmc"), b \in FeedStations("ndbc") :
    (lock = NoThread /\ a.platform_code = b.platform_code) =>
      LET ab == ApplyBatch(ApplyBatch(stations, <<a>>), <<b>>)
          ba == ApplyBatch(ApplyBatch(stations, <<b>>), <<a>>)
          c  == a.platform_code
          held == Get(stations, c)
      IN  IF a.time # b.time
          THEN /\ merge_station(a, b) = merge_station(b, a)
               /\ ab = ba
          ELSE /\ merge_station(a, b) = b
               /\ merge_station(b, a) = a
               /\ (held = None \/ held[1].time <= a.time) => (ab[c] = b /\ ba[c] = a)

\* an update has just stored the NDBC record of a platform over the OSMC
\* record of the same time that the table held
C19_Witness ==
  \E t \in Threads :
    /\ thr[t].pc = "u_loop"
    /\ thr[t].todo = <<>>
    /\ thr[t].feed = "ndbc"
    /\ Len(thr[t].batch) = 1
    /\ Get(thr[t].pre, thr[t].batch[1].platform_code) # None
    /\ thr[t].pre[thr[t].batch[1].platform_code].source = "osmc"
    /\ thr[t].pre[thr[t].batch[1].platform_code].time = thr[t].batch[1].time
    /\ stations[thr[t].batch[1].platform_code] = thr[t].batch[1]
    /\ stations # thr[t].pre

\* ---- C20
\* thread t is asking for the lock
Requesting(t) == thr[t].pc \in {"u_wait", "p_wait", "q_wait", "r_wait", "u_log"}

\* thread t is inside a with-block of the store
InWithBlock(t) == thr[t].pc \in {"u_loop", "p_in", "p_out", "q_in", "q_out"}

C21_NoLockAcrossNetworkWait ==
  /\ lock # NoThread =>
       /\ lock \in TaskIds
       /\ tasks[lock].pc = "merging"
       /\ tasks[lock].batch \in FetchedBatches(FeedOf(lock))
  /\ \A k \in TaskIds : tasks[k].pc \in {"created", "awaiting", "done"} => lock # k

\* the admin's NDBC task is inside the merge step with the lock while the
\* scheduler's NDBC task is waiting for its response
C21_Witness ==
  /\ tasks["admin_ndbc"].pc = "merging"
  /\ lock = "admin_ndbc"
  /\ tasks["sched_ndbc"].pc = "awaiting"
  /\ lock # "sched_ndbc"

\* ---- C22
\* a step of an operation started outside the scheduler loop: an on-demand
\* fetch (its start, its end, the handler's answer), the admin's purge, a
\* settings update, an API request
OutsideStep ==
  \/ \E feed \in Feeds : AdminFetch(feed)
  \/ \E k \in TaskIds \ SchedTasks : FetchSucceeds(k) \/ FetchErrs(k) \/ AdminFetchReturns(k)
  \/ AdminPurge
  \/ \E form \in SubmittedForms : AdminSaveSettings(form[1], form[2], form[3])
  \/ \E ip \in Ips : GetObservations(ip)

C23_FailedFetchChangesOnlyStatus ==
  [][/\ \A k \in TaskIds : FailureStep(k) =>
          /\ osmc_since' = osmc_since
          /\ stations' = stations
          /\ source_status'[FeedOf(k)].status = "error"
          /\ source_status'[FeedOf(k)].last_fetch = source_status[FeedOf(k)].last_fetch
          /\ source_status'[FeedOf(k)].stations = source_status[FeedOf(k)].stations
     /\ osmc_since' # osmc_since =>
          \E k \in TaskIds :
            /\ FeedOf(k) = "osmc"
            /\ tasks[k].pc = "awaiting" /\ tasks'[k].pc = "done" /\ tasks'[k].outcome = "ok"
            /\ \E batch \in FetchedBatches("osmc") : stations' = ApplyBatch(stations, batch)
            /\ osmc_since' = <<tasks[k].fetch_start - WatermarkOverlap>>]_vars

\* an OSMC fetch has failed and left no watermark, no last-fetch time and the
\* store as NDBC filled it; an NDBC fetch has failed after one that succeeded
\* and its entry still shows that one's time and count
C23_Witness ==
  /\ fetch_events["osmc"]["error"] > 0
  /\ source_status["osmc"] = [last_fetch |-> None, stations |-> 0, status |-> "error"]
  /\ osmc_since = None
  /\ stations # EmptyTable
  /\ source_status["ndbc"].status = "error"
  /\ source_status["ndbc"].last_fetch # None
  /\ source_status["ndbc"].stations > 0

\* ---- C24
\* C24: after any sequence of record_hit and update_country calls, the total
\* number of requests equals the sum of the country buckets ("Local" included)
\* plus the sum of the buffered hits, and so the sum of the buckets get_stats
\* reports ("Pending" included); the total is the number of record_hit calls.
C24_RequestCountConservation ==
  /\ stats._total_requests =
       SumOver(stats._country_counts, DOMAIN stats._country_counts)
         + SumOver(stats._ip_hit_count, DOMAIN stats._ip_hit_count)
  /\ stats._total_requests = SumOver(hits, Ips)
  /\ LET shown == get_stats(stats)
     IN  /\ shown.total_requests = SumOver(shown.by_country, DOMAIN shown.by_country)
         /\ Read(shown.by_country, "Pending") =
              SumOver(stats._ip_hit_count, DOMAIN stats._ip_hit_count)

\* a resolution has just come for an address that never had a hit; two hits of
\* another address are in a country's bucket, one private hit is in "Local"
\* and one hit of a third address is still buffered
C24_Witness ==
  /\ stats_op.op = "update_country"
  /\ hits[stats_op.ip] = 0
  /\ stats_op.ip \in DOMAIN stats._ip_country_cache
  /\ stats._total_requests = MaxRequests
  /\ \E c \in CountryCodes : Read(stats._country_counts, c) >= 2
  /\ Read(stats._country_counts, "Local") = 1
  /\ \E ip \in DOMAIN stats._ip_hit_count : stats._ip_hit_count[ip] = 1

\* ---- C25
\* C25: in the running application, where each lookup record_hit asks for ends
\* in one update_country call: no address is both resolved and buffered, every
\* address with buffered hits is flagged as being looked up and has a lookup in
\* flight, and every flagged address has at least one buffered hit.
C25_StatsStateConsistent ==
  /\ (DOMAIN stats._ip_country_cache) \cap (DOMAIN stats._ip_hit_count) = {}
  /\ \A ip \in DOMAIN stats._ip_hit_count :
       /\ stats._ip_hit_count[ip] >= 1
       /\ ip \in stats._pending_lookups
       /\ Outstanding(ip) >= 1
  /\ \A ip \in stats._pending_lookups : Read(stats._ip_hit_count, ip) >= 1

\* one address has two buffered hits and its lookup is waiting for the answer,
\* after another address was resolved and its hit moved to the country's bucket
C25_Witness ==
  /\ \E ip \in stats._pending_lookups :
       /\ Read(stats._ip_hit_count, ip) = 2
       /\ lookups[ip].awaiting = 1
  /\ \E ip \in DOMAIN stats._ip_country_cache :
       /\ ip \notin stats._pending_lookups
       /\ ip \notin DOMAIN stats._ip_hit_count
       /\ Read(stats._country_counts, stats._ip_country_cache[ip]) >= 1

\* ---- C26
\* every thread is between two calls of the store
Quiescent == lock = NoThread /\ \A t \in Threads : thr[t].pc = "idle"

\* the times of the records of one platform in a sequence of records
TimesOf(records, code) == { records[i].time : i \in Occurrences(records, code) }

Newest(times) == CHOOSE m \in times : \A x \in times : x <= m

\* the records of up to three single-record or longer batches, in the order applied
AppliedRecords == SeqsUpTo(AllStations, 3)

\* C26: every iteration of the update loop leaves for its platform the later of
\* the stored time and the incoming time, so a stored time never decreases
\* while the store is updated; and from any table the store holds between two
\* calls, after any sequence of batches of either feed with no purge among them
\* the stored time of every platform is the maximum of the time stored before
\* and the times of all its records applied since.
C26_TimestampMonotone ==
  /\ \A t \in Threads :
       (thr[t].pc = "u_loop" /\ thr[t].s # None) =>
         LET code == thr[t].s[1].platform_code
         IN  /\ stations[code].time >= thr[t].s[1].time
             /\ thr[t].existing # None =>
                  stations[code].time = Newest({thr[t].existing[1].time, thr[t].s[1].time})
             /\ \A c \in DOMAIN thr[t].pre :
                  c \in DOMAIN stations /\ stations[c].time >= thr[t].pre[c].time
  /\ Quiescent =>
       \A records \in AppliedRecords :
         LET after == ApplyBatch(stations, records)
         IN  /\ DOMAIN after = (DOMAIN stations) \cup BatchCodes(records)
             /\ \A c \in DOMAIN after :
                  after[c].time =
                    Newest(TimesOf(records, c)
                             \cup (IF c \in DOMAIN stations THEN {stations[c].time} ELSE {}))

\* a batch of two records of one platform, the newer one first, has been
\* applied to a table that held an older record of it: the stored time is the
\* newer one's
C26_Witness ==
  \E t \in Threads :
    /\ thr[t].pc = "u_loop" /\ thr[t].todo = <<>> /\ Len(thr[t].batch) = 2
    /\ thr[t].batch[1].platform_code = thr[t].batch[2].platform_code
    /\ thr[t].batch[1].time > thr[t].batch[2].time
    /\ thr[t].batch[1].platform_code \in DOMAIN thr[t].pre
    /\ thr[t].pre[thr[t].batch[1].platform_code].time < thr[t].batch[1].time
    /\ stations[thr[t].batch[1].platform_code].time = thr[t].batch[1].time

\* ---- C27
\* C27: a step that changes the OSMC watermark leaves it no earlier than it was
\* (a first watermark is later than none).  No step of the model changes the
\* watermark (FetchBegins fails every OSMC task at the call of its fetcher), so
\* this holds without any fetch having set it.
C27_WatermarkNeverMovesBack ==
  [][osmc_since' # osmc_since =>
       /\ osmc_since' # None
       /\ osmc_since # None => osmc_since'[1] >= osmc_since[1]]_vars

\* ---- C28
\* a fetch task applies its batch
Applies(k) == tasks[k].pc = "awaiting" /\ tasks'[k].pc = "done" /\ tasks'[k].outcome = "ok"

\* C28: while the scheduler is between two ticks none of its fetch tasks
\* exists, and a fetch task of the scheduler is in flight only while the
\* scheduler waits in gather (one that is done may be left by a shutdown); a tick starts with no fetch task of the scheduler left, so
\* it launches at most one task per feed and never a second one beside a
\* running one; a task of the scheduler applies its batch in a step of its
\* own, after the tick's purge, while the scheduler waits; and as long as the
\* scheduler waits for a running fetch no purge of the scheduler runs and no
\* next-due time moves, even when the purge is due.
C28_TickSerialization ==
  /\ [](sched.pc \in {"off", "created", "sleep"} => \A k \in SchedTasks : tasks[k].pc = "none")
  /\ [](\A k \in SchedTasks :
          /\ InFlight(tasks[k]) => sched.pc = "gather"
          /\ tasks[k].pc = "done" => sched.pc \in {"gather", "cancelled"})
  /\ [][TickStep =>
          /\ \A k \in SchedTasks : tasks[k].pc = "none" /\ tasks'[k].pc \in {"none", "created"}
          /\ sched'.purge_next > now]_vars
  /\ [][\A k \in SchedTasks : Applies(k) =>
          /\ sched.pc = "gather" /\ sched' = sched
          /\ \E batch \in FetchedBatches(FeedOf(k)) : stations' = ApplyBatch(stations, batch)]_vars
  /\ [][(sched.pc = "gather" /\ \E k \in SchedTasks : InFlight(tasks[k])) =>
          /\ sched'.purge_next = sched.purge_next
          /\ sched'.osmc_next = sched.osmc_next /\ sched'.ndbc_next = sched.ndbc_next
          /\ \A k \in SchedTasks : ~Launched(k)
          /\ stations' # stations => \E k \in TaskIds : Applies(k)]_vars

\* the purge has come due while the scheduler waits in gather for its NDBC
\* task, launched three clock steps ago with an OSMC task that has failed
C28_Witness ==
  /\ sched.pc = "gather"
  /\ tasks["sched_ndbc"].pc = "awaiting"
  /\ tasks["sched_osmc"].pc = "done"
  /\ now >= sched.purge_next
  /\ now >= sched.ndbc_next
  /\ stations # EmptyTable

\* ---- C29
\* the record is older than the max age a purge or query asks for
Stale(r, max_age_hours) == r.time < Cutoff(now, max_age_hours)

\* C29: the update loop stores or merges every record whatever its age: after
\* an iteration the record's platform is in the table with a time no earlier
\* than the record's, and a record of a platform that was absent is stored as
\* it is, however old, and is what count and oldest_observation then see; when
\* the loop is over no platform of the batch is missing.  Only a purge bounds
\* the age of what is held: right after one, no entry is older than its cutoff.
C29_NoAgeCheckOnUpdate ==
  \A t \in Threads :
    /\ (thr[t].pc = "u_loop" /\ thr[t].s # None) =>
         LET r == thr[t].s[1]
         IN  /\ r.platform_code \in DOMAIN stations
             /\ stations[r.platform_code].time >= r.time
             /\ thr[t].existing = None =>
                  /\ stations[r.platform_code] = r
                  /\ oldest_observation(stations) # None
                  /\ oldest_observation(stations)[1] <= r.time
    /\ (thr[t].pc = "u_loop" /\ thr[t].todo = <<>>) =>
         Count(stations) = Cardinality((DOMAIN thr[t].pre) \cup BatchCodes(thr[t].batch))
    /\ thr[t].pc = "p_out" =>
         \A c \in DOMAIN stations : stations[c].time >= thr[t].cutoff

\* a record older than the max age has just been put into a table that held
\* nothing that old and not its platform: it is stored, counted, and the
\* oldest observation
C29_Witness ==
  \E t \in Threads, age \in AgeHours :
    /\ thr[t].pc = "u_loop" /\ thr[t].s # None /\ thr[t].existing = None
    /\ Stale(thr[t].s[1], age)
    /\ stations[thr[t].s[1].platform_code] = thr[t].s[1]
    /\ thr[t].pre # EmptyTable
    /\ \A c \in DOMAIN thr[t].pre : ~Stale(thr[t].pre[c], age)
    /\ Count(stations) = Count(thr[t].pre) + 1
    /\ oldest_observation(stations) = <<thr[t].s[1].time>>

\* ---- C30
\* the records applied one at a time, each as a batch of its own
RECURSIVE OneAtATime(_, _)
OneAtATime(tbl, records) ==
  IF records = <<>> THEN tbl
  ELSE OneAtATime(ApplyBatch(tbl, <<Head(records)>>), Tail(records))

Latest(indices) == CHOOSE i \in indices : \A j \in indices : j <= i

\* C30: when an update has gone through its batch the table is what applying
\* the batch's records one at a time would have left; and from any table the
\* store holds between two calls, for any batch of up to three records of
\* either feed, repeated platforms included: the record left for a platform of
\* the batch has the maximum time among the record held before and the batch's
\* records of that platform, it is the last in batch order of the batch's
\* records with that time when there is one and the record held before
\* otherwise, and the table equals the one left by the records applied one at
\* a time.
C30_DuplicateKeysInBatch ==
  /\ \A t \in Threads :
       (thr[t].pc = "u_loop" /\ thr[t].todo = <<>>) =>
         stations = OneAtATime(thr[t].pre, thr[t].batch)
  /\ Quiescent =>
       \A batch \in AppliedRecords :
         LET after == ApplyBatch(stations, batch)
         IN  /\ after = OneAtATime(stations, batch)
             /\ \A c \in BatchCodes(batch) :
                  LET held   == IF c \in DOMAIN stations THEN {stations[c].time} ELSE {}
                      top    == Newest(TimesOf(batch, c) \cup held)
                      at_top == { i \in Occurrences(batch, c) : batch[i].time = top }
                  IN  /\ after[c].time = top
                      /\ after[c] = IF at_top # {} THEN batch[Latest(at_top)] ELSE stations[c]

\* a batch holding two records of one platform, the newer one first, has been
\* applied to a table without that platform: the newer one is stored, once
C30_Witness ==
  \E t \in Threads :
    /\ thr[t].pc = "u_loop" /\ thr[t].todo = <<>> /\ Len(thr[t].batch) = 2
    /\ thr[t].batch[1].platform_code = thr[t].batch[2].platform_code
    /\ thr[t].batch[1].time > thr[t].batch[2].time
    /\ thr[t].batch[1].platform_code \notin DOMAIN thr[t].pre
    /\ stations[thr[t].batch[1].platform_code] = thr[t].batch[1]
    /\ Count(stations) = Count(thr[t].pre) + 1

====
